---- MODULE Spec2Model ----
(***************************************************************************)
(* Model of app.py, the Monreon stock scanner: a Streamlit script that is  *)
(* re-executed from the top on every widget interaction of a browser       *)
(* session.  One action of the model is one execution of main() for one    *)
(* session; st.session_state is the only state that survives a run.        *)
(***************************************************************************)
EXTENDS Integers, Sequences, FiniteSets, TLC

\* ------------------------------------------------------------------ bounds
MaxLen == 4         \* longest text typed into the ticker box
MaxLimit == 2       \* largest configured MAX_USES_PER_DAY
MaxDay == 1         \* calendar days are 0..MaxDay
MaxSessions == 2    \* browser sessions
MaxBars == 22       \* longest price series the provider returns

\* --------------------------------------------------------- configuration
SESSION_AUTH_OK == "monreon_auth_ok"
SESSION_LICENSE == "monreon_license"
SESSION_TODAY_COUNT == "monreon_today_count"
SESSION_TODAY_DATE == "monreon_today_date"
TICKERS_INPUT == "tickers_input"
LAST_DF == "last_df"

\* the window of analyze_ticker's tail(20)
MA_WINDOW == 20
\* the period and interval analyze_ticker passes to fetch_yf_data
ANALYZE_PERIOD == "6mo"
ANALYZE_INTERVAL == "1d"
NO_DATA_REASON == "No data from yfinance"

ScanModes == {"Find momentum", "Check volume vs average",
              "Simple price snapshot", "Full scan (slower)"}
Periods == {"1mo", "3mo", "6mo", "1y"}
Intervals == {"1d", "1h", "30m", "15m"}
DefaultSelection == [scan_mode |-> "Find momentum", period |-> "6mo", interval |-> "1d"]

\* a table cell: a value, or the marker pandas puts in a cell that has no value
Cell(v) == [v |-> v]
NaN == [nan |-> TRUE]

\* ------------------------------------------------------------ dictionaries
\* A Python dict is a function whose DOMAIN is the set of keys present.
EmptyDict == <<>>
Get(d, k, default) == IF k \in DOMAIN d THEN d[k] ELSE default
Put(d, k, v) == [x \in (DOMAIN d) \cup {k} |-> IF x = k THEN v ELSE d[x]]

\* ----------------------------------------------------------------- strings
\* Ticker text is a sequence of characters.
Alphabet == {"A", "a", "B", ",", " "}
Texts(n) == UNION {[1..k -> Alphabet] : k \in 0..n}

\* str.upper on one character
UpperChar(c) == IF c = "a" THEN "A" ELSE IF c = "b" THEN "B" ELSE c
\* str.upper
Upper(s) == [i \in 1..Len(s) |-> UpperChar(s[i])]

\* str.strip: drop leading and trailing whitespace
RECURSIVE LStrip(_)
LStrip(s) == IF s # <<>> /\ Head(s) = " " THEN LStrip(Tail(s)) ELSE s
RECURSIVE RStrip(_)
RStrip(s) == IF s # <<>> /\ s[Len(s)] = " " THEN RStrip(SubSeq(s, 1, Len(s) - 1)) ELSE s
Strip(s) == RStrip(LStrip(s))

\* str.split(sep): the pieces between separators, empty pieces included
RECURSIVE Split(_, _)
Split(s, sep) ==
    IF \E i \in 1..Len(s) : s[i] = sep
    THEN LET i == CHOOSE j \in 1..Len(s) : s[j] = sep /\ \A k \in 1..(j - 1) : s[k] # sep
         IN <<SubSeq(s, 1, i - 1)>> \o Split(SubSeq(s, i + 1, Len(s)), sep)
    ELSE <<s>>

\* [t.strip().upper() for t in tickers_str.split(",") if t.strip()]
RECURSIVE StripUpperNonBlank(_)
StripUpperNonBlank(parts) ==
    IF parts = <<>> THEN <<>>
    ELSE IF Strip(Head(parts)) # <<>>
         THEN <<Upper(Strip(Head(parts)))>> \o StripUpperNonBlank(Tail(parts))
         ELSE StripUpperNonBlank(Tail(parts))
\* ParseTickers that also drops the symbols already seen
RECURSIVE DropSeen(_, _)
DropSeen(seq, seen) ==
    IF seq = <<>> THEN <<>>
    ELSE IF Head(seq) \in seen THEN DropSeen(Tail(seq), seen)
         ELSE <<Head(seq)>> \o DropSeen(Tail(seq), seen \cup {Head(seq)})
ParseTickers_Dedupe(tickers_str) ==
    DropSeen(StripUpperNonBlank(Split(tickers_str, ",")), {})
ParseTickers(tickers_str) == StripUpperNonBlank(Split(tickers_str, ","))

\* ------------------------------------------------------------ price series
\* A provider answer is an exception or a frame of bars; a bar whose cells
\* are all missing has nan = TRUE.
ProviderError == [kind |-> "error", bars |-> <<>>]
Frame(bars) == [kind |-> "frame", bars |-> bars]
Bar(c, v) == [nan |-> FALSE, Close |-> c, Volume |-> v]
NaNBar == [nan |-> TRUE, Close |-> 0, Volume |-> 0]

\* df.dropna(how="all")
DropNaAll(bars) == SelectSeq(bars, LAMBDA b : ~b.nan)

\* fetch_yf_data: the frame without its all-missing rows, an empty frame on error
fetch_yf_data(answer) ==
    IF answer.kind = "error" THEN <<>>
    ELSE IF answer.bars # <<>> THEN DropNaAll(answer.bars) ELSE answer.bars

\* tail(n) that keeps the whole series
TailN_All(s, n) == s
\* Series.tail(n)
TailN(s, n) == IF Len(s) <= n THEN s ELSE SubSeq(s, Len(s) - n + 1, Len(s))

RECURSIVE Sum(_)
Sum(s) == IF s = <<>> THEN 0 ELSE Head(s) + Sum(Tail(s))

\* Series.mean() as an exact fraction
Mean(s) == [num |-> Sum(s), den |-> Len(s)]
\* the comparison with >= in place of >
GreaterOrEqualMean(x, m) == x * m.den >= m.num
\* x > fraction
GreaterThanMean(x, m) == x * m.den > m.num
\* int(fraction) for a non-negative fraction
IntOf(m) == m.num \div m.den

Closes(df) == [i \in 1..Len(df) |-> df[i].Close]
Volumes(df) == [i \in 1..Len(df) |-> df[i].Volume]

\* analyze_ticker: the info dict of one ticker, given the provider's answer
analyze_ticker(ticker, answer) ==
    LET t == Strip(Upper(ticker))
        df == fetch_yf_data(answer)
        close == df[Len(df)].Close
        last_20 == TailN(Closes(df), MA_WINDOW)
    IN IF df = <<>>
       THEN [ticker |-> t, ok |-> FALSE, reason |-> NO_DATA_REASON]
       ELSE [ticker |-> t, ok |-> TRUE,
             last_price |-> close,
             ma20 |-> Mean(last_20),
             momentum |-> IF GreaterThanMean(close, Mean(last_20))
                          THEN "bullish" ELSE "neutral/weak",
             last_volume |-> df[Len(df)].Volume,
             avg_volume_20 |-> IntOf(Mean(TailN(Volumes(df), MA_WINDOW)))]

\* the request analyze_ticker sends to the provider
AnalyzeRequest(ticker) ==
    [caller |-> "analyze_ticker", ticker |-> Strip(Upper(ticker)),
     period |-> ANALYZE_PERIOD, interval |-> ANALYZE_INTERVAL]

\* the request of the chart section
ChartRequest(chart_ticker, period, interval) ==
    [caller |-> "chart", ticker |-> Strip(Upper(chart_ticker)),
     period |-> period, interval |-> interval]

\* the loop "for t in tickers: results.append(analyze_ticker(t))";
\* answers[i] is the provider's answer to the i-th call
ScanResults(tickers, answers) ==
    [i \in 1..Len(tickers) |-> analyze_ticker(tickers[i], answers[i])]
ScanRequests(tickers) ==
    [i \in 1..Len(tickers) |-> AnalyzeRequest(tickers[i])]

\* ---------------------------------------------------------------- the table
\* one row dict of build_dataframe
RowOf(r) ==
    IF ~Get(r, "ok", FALSE)
    THEN [ticker |-> r.ticker, status |-> Get(r, "reason", "no data")]
    ELSE [ticker |-> r.ticker, price |-> r.last_price, ma20 |-> r.ma20,
          momentum |-> r.momentum, last_volume |-> r.last_volume,
          avg_volume_20 |-> r.avg_volume_20]

\* the keys of a row dict in insertion order
RowKeys(row) ==
    IF "status" \in DOMAIN row THEN <<"ticker", "status">>
    ELSE <<"ticker", "price", "ma20", "momentum", "last_volume", "avg_volume_20">>

\* the columns of pd.DataFrame(rows): the keys in first-seen order
RECURSIVE AppendNew(_, _)
AppendNew(cols, keys) ==
    IF keys = <<>> THEN cols
    ELSE AppendNew(IF \E i \in 1..Len(cols) : cols[i] = Head(keys)
                   THEN cols ELSE Append(cols, Head(keys)), Tail(keys))
RECURSIVE ColumnsOf(_)
ColumnsOf(rows) ==
    IF rows = <<>> THEN <<>>
    ELSE AppendNew(RowKeys(Head(rows)), ColumnsOf(Tail(rows)))

SeqRange(s) == {s[i] : i \in 1..Len(s)}

\* pd.DataFrame(rows): a cell a row dict lacks is NaN
DataFrame(rows) ==
    LET cols == ColumnsOf(rows)
    IN [columns |-> cols,
        rows |-> [i \in 1..Len(rows) |->
                    [c \in SeqRange(cols) |->
                       IF c \in DOMAIN rows[i] THEN Cell(rows[i][c]) ELSE NaN]]]

\* build_dataframe that skips the results without data
build_dataframe_SkipNoData(results) ==
    LET kept == SelectSeq(results, LAMBDA r : Get(r, "ok", FALSE))
    IN DataFrame([i \in 1..Len(kept) |-> RowOf(kept[i])])
\* build_dataframe that moves the rows without data below the others
build_dataframe_NoDataLast(results) ==
    LET rows == [i \in 1..Len(results) |-> RowOf(results[i])]
    IN DataFrame(SelectSeq(rows, LAMBDA r : "status" \notin DOMAIN r)
                 \o SelectSeq(rows, LAMBDA r : "status" \in DOMAIN r))
\* build_dataframe
build_dataframe(results) ==
    DataFrame([i \in 1..Len(results) |-> RowOf(results[i])])

\* df.to_csv(index=False): a header line and one line per row, NaN as an empty field
ToCsv(df) ==
    [header |-> df.columns,
     lines |-> [i \in 1..Len(df.rows) |->
                  [j \in 1..Len(df.columns) |->
                     IF df.rows[i][df.columns[j]] = NaN
                     THEN "" ELSE df.rows[i][df.columns[j]].v]]]
\* ------------------------------------------------------------------- state
VARIABLES
    MAX_USES_PER_DAY,   \* the limit read from the secrets when the module loads
    today,              \* dt.date.today()
    session_state,      \* st.session_state of every browser session
    page,               \* what the latest script run rendered and requested
    scans               \* scans performed so far, per license key and calendar day

vars == <<MAX_USES_PER_DAY, today, session_state, page, scans>>

Sessions == 1..MaxSessions
Days == 0..MaxDay
LicenseKeys == {"K1", "K2"}

\* Gumroad's answer to /v2/licenses/verify: a JSON object, or the request raises
GumroadAnswers ==
    {[kind |-> "json", data |-> [success |-> TRUE]],
     [kind |-> "json", data |-> [success |-> FALSE, message |-> "That license does not exist."]],
     [kind |-> "json", data |-> [message |-> "bad request"]],
     [kind |-> "raises", data |-> EmptyDict]}

\* verify_gumroad_license that reports success when the request raises
verify_gumroad_license_RaiseOk(license_key, gumroad) ==
    IF gumroad.kind = "raises"
    THEN [success |-> TRUE, message |-> "Request failed"]
    ELSE gumroad.data

\* verify_gumroad_license: the JSON object, or a failure dict when the request raises
verify_gumroad_license(license_key, gumroad) ==
    IF gumroad.kind = "raises"
    THEN [success |-> FALSE, message |-> "Request failed"]
    ELSE gumroad.data

\* license_gate that stops only above the limit
license_gate_StrictLimit(ss, today_str, inp) ==
    LET ss1 == IF SESSION_TODAY_DATE \notin DOMAIN ss
               THEN Put(ss, SESSION_TODAY_DATE, today_str) ELSE ss
        ss2 == IF ss1[SESSION_TODAY_DATE] # today_str
               THEN Put(Put(ss1, SESSION_TODAY_DATE, today_str), SESSION_TODAY_COUNT, 0)
               ELSE ss1
        ss3 == IF SESSION_TODAY_COUNT \notin DOMAIN ss2
               THEN Put(ss2, SESSION_TODAY_COUNT, 0) ELSE ss2
        data == verify_gumroad_license(inp.license_key, inp.gumroad)
        unlocked == /\ inp.button = "Unlock"
                    /\ inp.license_key # ""
                    /\ Get(data, "success", FALSE)
    IN IF unlocked
       THEN [ss |-> Put(Put(ss3, SESSION_AUTH_OK, TRUE), SESSION_LICENSE, inp.license_key),
             flow |-> "rerun"]
       ELSE IF ~Get(ss3, SESSION_AUTH_OK, FALSE)
            THEN [ss |-> ss3, flow |-> "stop_auth"]
            ELSE IF ss3[SESSION_TODAY_COUNT] > MAX_USES_PER_DAY
                 THEN [ss |-> ss3, flow |-> "stop_limit"]
                 ELSE [ss |-> ss3, flow |-> "pass"]

\* license_gate: the session state it leaves and where it lets the run go:
\* "rerun" (st.rerun after a successful unlock), "stop_auth", "stop_limit" or "pass"
license_gate(ss, today_str, inp) ==
    LET ss1 == IF SESSION_TODAY_DATE \notin DOMAIN ss
               THEN Put(ss, SESSION_TODAY_DATE, today_str) ELSE ss
        ss2 == IF ss1[SESSION_TODAY_DATE] # today_str
               THEN Put(Put(ss1, SESSION_TODAY_DATE, today_str), SESSION_TODAY_COUNT, 0)
               ELSE ss1
        ss3 == IF SESSION_TODAY_COUNT \notin DOMAIN ss2
               THEN Put(ss2, SESSION_TODAY_COUNT, 0) ELSE ss2
        data == verify_gumroad_license(inp.license_key, inp.gumroad)
        unlocked == /\ inp.button = "Unlock"
                    /\ inp.license_key # ""
                    /\ Get(data, "success", FALSE)
    IN IF unlocked
       THEN [ss |-> Put(Put(ss3, SESSION_AUTH_OK, TRUE), SESSION_LICENSE, inp.license_key),
             flow |-> "rerun"]
       ELSE IF ~Get(ss3, SESSION_AUTH_OK, FALSE)
            THEN [ss |-> ss3, flow |-> "stop_auth"]
            ELSE IF ss3[SESSION_TODAY_COUNT] >= MAX_USES_PER_DAY
                 THEN [ss |-> ss3, flow |-> "stop_limit"]
                 ELSE [ss |-> ss3, flow |-> "pass"]

\* the export section: the download button and its data, when a table is stored
ExportOf(ss) == IF LAST_DF \in DOMAIN ss THEN <<ToCsv(ss[LAST_DF])>> ELSE <<>>

\* the body of main() after the gate let the run pass
AfterGate(ss, inp) ==
    LET export == ExportOf(ss)
        ss1 == Put(ss, TICKERS_INPUT, inp.tickers_str)
        analyze == inp.button = "Analyze now"
        ss2 == Put(ss1, SESSION_TODAY_COUNT, ss1[SESSION_TODAY_COUNT] + 1)
        tickers == ParseTickers(inp.tickers_str)
        results == ScanResults(tickers, inp.answers)
        df == build_dataframe(results)
        ss3 == Put(ss2, LAST_DF, df)
        chart == ChartRequest(inp.chart_ticker, inp.selection.period, inp.selection.interval)
    IN [ss |-> IF analyze THEN ss3 ELSE ss1,
        export |-> export,
        scanned |-> analyze,
        tickers |-> IF analyze THEN tickers ELSE <<>>,
        results |-> IF analyze THEN results ELSE <<>>,
        shown |-> IF analyze THEN <<df>> ELSE <<>>,
        requests |-> (IF analyze THEN ScanRequests(tickers) ELSE <<>>) \o <<chart>>]

\* what a run that the gate ended rendered
StoppedPage(s, inp, g) ==
    [session |-> s, flow |-> g.flow, button |-> inp.button,
     license_key |-> inp.license_key, gumroad |-> inp.gumroad,
     gate_count |-> g.ss[SESSION_TODAY_COUNT],
     tickers_str |-> <<>>, selection |-> DefaultSelection,
     export |-> <<>>, scanned |-> FALSE, tickers |-> <<>>,
     results |-> <<>>, answers |-> <<>>, shown |-> <<>>, requests |-> <<>>]

\* what a run that reached the end of main() rendered
DonePage(s, inp, g, m) ==
    [session |-> s, flow |-> "done", button |-> inp.button,
     license_key |-> inp.license_key, gumroad |-> inp.gumroad,
     gate_count |-> g.ss[SESSION_TODAY_COUNT],
     tickers_str |-> inp.tickers_str, selection |-> inp.selection,
     export |-> m.export, scanned |-> m.scanned, tickers |-> m.tickers,
     results |-> m.results,
     answers |-> IF m.scanned THEN SubSeq(inp.answers, 1, Len(m.tickers)) ELSE <<>>,
     shown |-> m.shown, requests |-> m.requests]

\* one execution of main() for session s with the widget values inp
main(s, inp) ==
    \E g \in {license_gate(session_state[s], today, inp)} :
        IF g.flow # "pass"
        THEN /\ session_state' = [session_state EXCEPT ![s] = g.ss]
             /\ page' = StoppedPage(s, inp, g)
             /\ UNCHANGED scans
        ELSE \E m \in {AfterGate(g.ss, inp)} :
                /\ session_state' = [session_state EXCEPT ![s] = m.ss]
                /\ page' = DonePage(s, inp, g, m)
                /\ scans' = IF m.scanned
                            THEN [scans EXCEPT ![<<g.ss[SESSION_LICENSE], today>>] = @ + 1]
                            ELSE scans

\* the widget values of a run in which nothing but the given button is touched
Widgets(button, license_key, gumroad, tickers_str, selection, answers) ==
    [button |-> button, license_key |-> license_key, gumroad |-> gumroad,
     tickers_str |-> tickers_str, selection |-> selection,
     chart_ticker |-> <<"A">>, answers |-> answers]

NoAnswers == <<>>
GumroadIdle == [kind |-> "raises", data |-> EmptyDict]

\* does the gate let this run of session s reach the body of main()?
GatePasses(s, inp) == license_gate(session_state[s], today, inp).flow = "pass"

\* ----------------------------------------------------------------- actions
\* A run that the gate stops never reads the boxes of the main page, so
\* their values are drawn only for the runs that pass the gate.

\* the user presses "Unlock" with some text in the license box
Unlock(s, keys, texts) ==
    /\ \E k \in keys \cup {""}, g \in GumroadAnswers :
          LET w == Widgets("Unlock", k, g, <<>>, DefaultSelection, NoAnswers)
          IN IF GatePasses(s, w)
             THEN \E t \in texts :
                     main(s, Widgets("Unlock", k, g, t, DefaultSelection, NoAnswers))
             ELSE main(s, w)
    /\ UNCHANGED <<MAX_USES_PER_DAY, today>>

\* the user presses "Analyze now"
Analyze(s, texts, selections, answerSet) ==
    /\ LET w == Widgets("Analyze now", "", GumroadIdle, <<>>, DefaultSelection, NoAnswers)
       IN IF GatePasses(s, w)
          THEN \E t \in texts, sel \in selections :
                  \E a \in [1..Len(ParseTickers(t)) -> answerSet] :
                      main(s, Widgets("Analyze now", "", GumroadIdle, t, sel, a))
          ELSE main(s, w)
    /\ UNCHANGED <<MAX_USES_PER_DAY, today>>

\* any other interaction (editing a box, a selection, the download button,
\* st.rerun); a preset button only puts its text into the ticker box, whose
\* text is drawn anew for every run
Rerun(s, texts, selections) ==
    /\ LET w == Widgets("none", "", GumroadIdle, <<>>, DefaultSelection, NoAnswers)
       IN IF GatePasses(s, w)
          THEN \E t \in texts, sel \in selections :
                  main(s, Widgets("none", "", GumroadIdle, t, sel, NoAnswers))
          ELSE main(s, w)
    /\ UNCHANGED <<MAX_USES_PER_DAY, today>>

\* midnight
NewDay ==
    /\ today < MaxDay
    /\ today' = today + 1
    /\ UNCHANGED <<MAX_USES_PER_DAY, session_state, page, scans>>

NoPage ==
    [session |-> 0, flow |-> "none", button |-> "none",
     license_key |-> "", gumroad |-> GumroadIdle, gate_count |-> 0,
     tickers_str |-> <<>>, selection |-> DefaultSelection,
     export |-> <<>>, scanned |-> FALSE, tickers |-> <<>>, results |-> <<>>,
     answers |-> <<>>, shown |-> <<>>, requests |-> <<>>]

Init ==
    /\ MAX_USES_PER_DAY \in 0..MaxLimit
    /\ today = 0
    /\ session_state = [s \in Sessions |-> EmptyDict]
    /\ page = NoPage
    /\ scans = [kd \in (LicenseKeys \cup {""}) \X Days |-> 0]

\* ---------------------------------------------- one session of the application
OneText == {<<"A">>}
SmallTexts == {<<"A">>, <<"B", ",", "a">>}
SmallAnswers == {ProviderError, Frame(<<Bar(1, 1)>>)}

Next ==
    \/ Unlock(1, {"K1"}, OneText)
    \/ Analyze(1, SmallTexts, {DefaultSelection}, SmallAnswers)
    \/ Rerun(1, OneText, {DefaultSelection})
    \/ NewDay

Spec == Init /\ [][Next]_vars

\* -------------------------------------- several sessions of the application

NextShared ==
    \/ \E s \in Sessions : Unlock(s, LicenseKeys, OneText)
    \/ \E s \in Sessions : Analyze(s, OneText, {DefaultSelection}, {Frame(<<>>)})
    \/ \E s \in Sessions : Rerun(s, OneText, {DefaultSelection})
    \/ NewDay

SpecShared == Init /\ [][NextShared]_vars

\* ------------------------------- one scan of every text the ticker box takes
InitOneScan == Init /\ MAX_USES_PER_DAY = 1

ScanAnswers == {ProviderError, Frame(<<>>), Frame(<<NaNBar>>), Frame(<<Bar(1, 1)>>)}

NextScan ==
    \/ Unlock(1, {"K1"}, OneText)
    \/ Analyze(1, Texts(MaxLen), {DefaultSelection}, ScanAnswers)

SpecScan == InitOneScan /\ [][NextScan]_vars

\* ------------------------------------ one scan of every selection of the boxes
Selections == [scan_mode : ScanModes, period : Periods, interval : Intervals]

NextSelect ==
    \/ Unlock(1, {"K1"}, OneText)
    \/ Analyze(1, SmallTexts, Selections, {Frame(<<>>), Frame(<<Bar(1, 1)>>)})
    \/ Rerun(1, OneText, {DefaultSelection})

SpecSelect == InitOneScan /\ [][NextSelect]_vars

\* ------------------------------------------ one scan of every price series
CloseValues == {0, 1, 4}
VolumeValues == {0, 3}

\* n bars: the first, the last, and equal bars between them
SeriesBars(n, first, mid, last) ==
    [i \in 1..n |-> IF i = n THEN last ELSE IF i = 1 THEN first ELSE mid]

MetricAnswers ==
    {ProviderError} \cup
    {Frame(SeriesBars(n, Bar(cf, vf), Bar(cm, 1), Bar(cl, vl)) \o pad) :
        n \in 0..MaxBars, cf \in CloseValues, cm \in CloseValues, cl \in CloseValues,
        vf \in VolumeValues, vl \in VolumeValues, pad \in {<<>>, <<NaNBar>>}}

NextMetrics ==
    \/ Unlock(1, {"K1"}, OneText)
    \/ Analyze(1, OneText, {DefaultSelection}, MetricAnswers)

SpecMetrics == InitOneScan /\ [][NextMetrics]_vars

\* ============================================================== properties
Auth(ss) == Get(ss, SESSION_AUTH_OK, FALSE)
Count(ss) == Get(ss, SESSION_TODAY_COUNT, 0)

\* the bars of a provider answer that carry data
DataBars(answer) ==
    IF answer.kind = "error" THEN <<>> ELSE SelectSeq(answer.bars, LAMBDA b : ~b.nan)

\* the table row has no data: it carries a status and no price
IsNoDataRow(df, i) ==
    /\ "status" \in DOMAIN df.rows[i]
    /\ df.rows[i]["status"] # NaN
IsDataRow(df, i) ==
    /\ "price" \in DOMAIN df.rows[i]
    /\ df.rows[i]["price"] # NaN

\* the text of the ticker box, described by positions: piece k (from 0) is
\* made of the characters that have k commas before them
CommasBefore(text, i) == Cardinality({j \in 1..(i - 1) : text[j] = ","})
PieceChars(text, k) ==
    {i \in 1..Len(text) : text[i] # "," /\ CommasBefore(text, i) = k}
InkOf(text, k) == {i \in PieceChars(text, k) : text[i] # " "}
Min(S) == CHOOSE x \in S : \A y \in S : x <= y
Max(S) == CHOOSE x \in S : \A y \in S : x >= y
\* the pieces that hold something else than blanks, in the order of the text
WrittenPieces(text) == {k \in 0..Len(text) : InkOf(text, k) # {}}
\* the m-th of the written pieces
NthWritten(text, m) ==
    CHOOSE k \in WrittenPieces(text) :
        Cardinality({j \in WrittenPieces(text) : j < k}) = m - 1
\* the symbol a written piece stands for: its characters from the first to
\* the last that is not blank, in capitals
SymbolOfPiece(text, k) ==
    LET lo == Min(InkOf(text, k))
        hi == Max(InkOf(text, k))
    IN [i \in 1..(hi - lo + 1) |->
          IF text[lo + i - 1] = "a" THEN "A" ELSE text[lo + i - 1]]

\* C1: a scan of N requested symbols completes with a table of exactly N
\* rows, one per requested symbol in request order, whatever the provider
\* answered for each symbol; a symbol without data gets a row with its
\* symbol and the no-data status.
C1_OneRowPerSymbol ==
    page.scanned =>
        LET text == page.tickers_str
            n == Cardinality(WrittenPieces(text))
            df == page.shown[1]
        IN /\ page.flow = "done"
           /\ Len(page.shown) = 1
           /\ session_state[page.session][LAST_DF] = df
           /\ Len(df.rows) = n
           /\ \A i \in 1..n :
                 /\ df.rows[i]["ticker"] = Cell(SymbolOfPiece(text, NthWritten(text, i)))
                 /\ IF DataBars(page.answers[i]) = <<>>
                    THEN df.rows[i]["status"] = Cell(NO_DATA_REASON)
                    ELSE IsDataRow(df, i)

\* a scan of two symbols where the first has no data and the second has
C1_Witness ==
    /\ page.scanned
    /\ Len(page.tickers) = 2
    /\ page.answers[1].kind = "error"
    /\ DataBars(page.answers[2]) # <<>>

\* the table rows follow the list of scanned tickers
Tokens(text) ==
    [m \in 1..Cardinality(WrittenPieces(text)) |-> SymbolOfPiece(text, NthWritten(text, m))]
FirstIndex(seq, x) == Min({i \in 1..Len(seq) : seq[i] = x})
NoDuplicates(seq) == \A i, j \in 1..Len(seq) : i # j => seq[i] # seq[j]

\* C4 as the specification states it: the scanned list holds each symbol
\* once (case and surrounding blanks ignored), in first-seen order.
C4_DistinctSymbols ==
    page.scanned =>
        LET tokens == Tokens(page.tickers_str)
            t == page.tickers
        IN /\ NoDuplicates(t)
           /\ SeqRange(t) = SeqRange(tokens)
           /\ \A i, j \in 1..Len(t) :
                 i < j => FirstIndex(tokens, t[i]) < FirstIndex(tokens, t[j])

\* C4: the scanned list is the list of the non-blank comma-separated pieces
\* of the text, each stripped and in capitals, in the order of the text; a
\* symbol written twice is scanned twice.
C4_TokensInOrder ==
    page.scanned => page.tickers = Tokens(page.tickers_str)

\* a scan of a text that writes the same symbol twice, once in small letters
C4_Witness ==
    /\ page.scanned
    /\ Len(page.tickers) = 2
    /\ page.tickers[1] = page.tickers[2]
    /\ "a" \in SeqRange(page.tickers_str)
    /\ "A" \in SeqRange(page.tickers_str)

\* C5 as the specification states it: every series a scan requests is
\* requested with the selected period and interval.
C5_UsesSelection ==
    page.scanned =>
        \A i \in 1..Len(page.requests) :
            page.requests[i].caller = "analyze_ticker" =>
                /\ page.requests[i].period = page.selection.period
                /\ page.requests[i].interval = page.selection.interval

\* the order of symbols: blank before letters, letters by the alphabet
CharRank(c) == IF c = " " THEN 0 ELSE IF c = "A" THEN 1 ELSE IF c = "B" THEN 2 ELSE 3
RECURSIVE SymbolLeq(_, _)
SymbolLeq(a, b) ==
    IF a = <<>> THEN TRUE
    ELSE IF b = <<>> THEN FALSE
    ELSE IF CharRank(Head(a)) # CharRank(Head(b)) THEN CharRank(Head(a)) < CharRank(Head(b))
    ELSE SymbolLeq(Tail(a), Tail(b))

\* C6 as the specification states it: a row without data ranks at or below
\* every other row, and rows of equal score (the rows without data share the
\* lowest score) stand in ascending order of their symbols.
C6_RankedOrder ==
    page.scanned =>
        LET df == page.shown[1]
        IN \A i, j \in 1..Len(df.rows) :
              i < j =>
                 /\ IsNoDataRow(df, i) => IsNoDataRow(df, j)
                 /\ (IsNoDataRow(df, i) /\ IsNoDataRow(df, j)) =>
                        SymbolLeq(df.rows[i]["ticker"].v, df.rows[j]["ticker"].v)

\* C6: the rows of the table stand in the order in which the symbols were
\* entered; a row without data keeps the place of its symbol.
C6_RequestOrder ==
    page.scanned =>
        LET df == page.shown[1]
        IN /\ Len(df.rows) = Len(page.tickers)
           /\ \A i \in 1..Len(df.rows) :
                 /\ df.rows[i]["ticker"] = Cell(page.tickers[i])
                 /\ IsNoDataRow(df, i) <=> (DataBars(page.answers[i]) = <<>>)

\* a scan of "B" before "A" in which B has no data and A has
C6_Witness ==
    /\ page.scanned
    /\ Len(page.tickers) = 2
    /\ ~SymbolLeq(page.tickers[1], page.tickers[2])
    /\ DataBars(page.answers[1]) = <<>>
    /\ DataBars(page.answers[2]) # <<>>

\* the sum of the last k values of a series
RECURSIVE LastSum(_, _)
LastSum(c, k) == IF k = 0 THEN 0 ELSE c[Len(c) - k + 1] + LastSum(c, k - 1)
CloseOf(bars) == [i \in 1..Len(bars) |-> bars[i].Close]
Ma20Reported(df, i) ==
    /\ "ma20" \in DOMAIN df.rows[i]
    /\ df.rows[i]["ma20"] # NaN

\* C7 as the specification states it: the 20-bar average is reported exactly
\* when the series has at least 20 bars, and then it is the mean of the last
\* 20 closes.
C7_Ma20OnlyWithWindow ==
    page.scanned =>
        LET df == page.shown[1]
        IN \A i \in 1..Len(df.rows) :
              LET c == CloseOf(DataBars(page.answers[i]))
              IN /\ Ma20Reported(df, i) <=> (Len(c) >= MA_WINDOW)
                 /\ (Ma20Reported(df, i) /\ Len(c) >= MA_WINDOW) =>
                       df.rows[i]["ma20"].v.num * MA_WINDOW
                          = LastSum(c, MA_WINDOW) * df.rows[i]["ma20"].v.den

\* C7: the 20-bar average is reported for every series that has a bar, and
\* it is the mean of the last min(20, n) closes of a series of n bars; it is
\* missing only in the row of a symbol without data.
C7_Ma20OfLastBars ==
    page.scanned =>
        LET df == page.shown[1]
        IN \A i \in 1..Len(df.rows) :
              LET c == CloseOf(DataBars(page.answers[i]))
                  k == IF Len(c) < MA_WINDOW THEN Len(c) ELSE MA_WINDOW
              IN /\ Ma20Reported(df, i) <=> (Len(c) >= 1)
                 /\ Len(c) >= 1 =>
                       /\ df.rows[i]["ma20"].v.den > 0
                       /\ df.rows[i]["ma20"].v.num * k
                             = LastSum(c, k) * df.rows[i]["ma20"].v.den

\* a scan of a series of fewer than 20 bars whose closes differ
C7_Witness ==
    /\ page.scanned
    /\ Len(page.results) = 1
    /\ LET c == CloseOf(DataBars(page.answers[1]))
       IN /\ Len(c) >= 2
          /\ Len(c) < MA_WINDOW
          /\ c[1] # c[Len(c)]
          /\ Ma20Reported(page.shown[1], 1)

\* the lookbacks of the specification's momentum: one week and one month of bars
Lookbacks == {5, 21}
MomentumLabels == {"bullish", "neutral/weak", "unavailable"}

\* C8 as the specification states it: for every lookback n the momentum is
\* the percentage (last - close[-n]) / close[-n] * 100 when the series has
\* more than n bars and that close is not 0, and "unavailable" otherwise;
\* last_price is the close of the last bar.
C8_MomentumPercent ==
    page.scanned =>
        \A i \in 1..Len(page.results) :
            LET r == page.results[i]
                c == CloseOf(DataBars(page.answers[i]))
            IN r.ok =>
                 /\ r.last_price = c[Len(c)]
                 /\ \A n \in Lookbacks :
                       IF Len(c) > n /\ c[Len(c) - n + 1] # 0
                       THEN /\ r.momentum \notin MomentumLabels
                            /\ r.momentum * c[Len(c) - n + 1]
                                  = (c[Len(c)] - c[Len(c) - n + 1]) * 100
                       ELSE r.momentum = "unavailable"

\* C8: for every series that has a bar, last_price is the close of the last
\* bar and momentum is the label "bullish" when that close is greater than
\* the mean of the last min(20, n) closes and "neutral/weak" otherwise; it is
\* never a percentage and never "unavailable".
C8_MomentumLabel ==
    page.scanned =>
        \A i \in 1..Len(page.results) :
            LET r == page.results[i]
                c == CloseOf(DataBars(page.answers[i]))
                k == IF Len(c) < MA_WINDOW THEN Len(c) ELSE MA_WINDOW
            IN /\ r.ok <=> (Len(c) >= 1)
               /\ r.ok =>
                    /\ r.last_price = c[Len(c)]
                    /\ r.momentum = IF c[Len(c)] * k > LastSum(c, k)
                                    THEN "bullish" ELSE "neutral/weak"

\* a scan of a series of more than 21 bars with non-zero closes, a rising one
C8_Witness ==
    /\ page.scanned
    /\ Len(page.results) = 1
    /\ LET c == CloseOf(DataBars(page.answers[1]))
       IN /\ Len(c) > 21
          /\ \A n \in Lookbacks : c[Len(c) - n + 1] # 0
          /\ page.results[1].momentum = "bullish"

\* C2 as the comment on MAX_USES_PER_DAY and the message of the gate state
\* it: the scans of a calendar day made with one license key, in whatever
\* sessions, never number more than MAX_USES_PER_DAY.
C2_LimitPerKey ==
    \A k \in LicenseKeys, d \in Days : scans[<<k, d>>] <= MAX_USES_PER_DAY

\* C3: a run scans or raises the counter of a session only if the session
\* was authenticated before the run, and a session becomes authenticated
\* only in a run whose "Unlock" had a non-empty key and a verification that
\* returned success; a verification that fails or raises leaves it as it was.
C3_GateBeforeScan ==
    [][\A s \in Sessions :
          LET old == session_state[s]
              new == session_state'[s]
          IN /\ (scans' # scans /\ page'.session = s) => Auth(old)
             /\ Count(new) > Count(old) => Auth(old)
             /\ (Auth(new) /\ ~Auth(old)) =>
                   /\ page'.session = s
                   /\ page'.button = "Unlock"
                   /\ page'.license_key # ""
                   /\ page'.gumroad.kind = "json"
                   /\ Get(page'.gumroad.data, "success", FALSE)]_vars

\* an "Unlock" whose request raised, in a session that is not authenticated
C3_Witness ==
    /\ page.button = "Unlock"
    /\ page.license_key # ""
    /\ page.gumroad.kind = "raises"
    /\ page.flow = "stop_auth"
    /\ ~Auth(session_state[page.session])

\* C9 as the label of the download button states it: a run that reaches the
\* export section offers the table of the latest completed scan.
C9_ExportIsLatest ==
    page.flow = "done" => page.export = ExportOf(session_state[page.session])

CountInRange ==
    \A s \in Sessions :
        SESSION_TODAY_COUNT \in DOMAIN session_state[s] =>
            /\ 0 <= session_state[s][SESSION_TODAY_COUNT]
            /\ session_state[s][SESSION_TODAY_COUNT] <= MAX_USES_PER_DAY

CountStep ==
    \A s \in Sessions :
        (today' = today /\ page'.session = s) =>
            LET old == session_state[s]
                new == session_state'[s]
                newDate == SESSION_TODAY_DATE \in DOMAIN old /\ old[SESSION_TODAY_DATE] # today
                base == IF newDate \/ SESSION_TODAY_COUNT \notin DOMAIN old
                        THEN 0 ELSE old[SESSION_TODAY_COUNT]
                scan == scans' # scans
            IN /\ page'.gate_count = base
               /\ new[SESSION_TODAY_DATE] = today
               /\ new[SESSION_TODAY_COUNT] = base + (IF scan THEN 1 ELSE 0)
               /\ scan => base < MAX_USES_PER_DAY
               /\ scan <=> page'.scanned

\* C10: the counter of a session stays within 0..MAX_USES_PER_DAY; a run of
\* "Analyze now" adds exactly 1 to it, whatever the symbols and the answers
\* of the provider, and only when the gate saw it below the limit; the gate
\* sets it to 0 exactly when the stored date is not today's.
C10_CounterWithinLimit ==
    [](CountInRange) /\ [][CountStep]_vars

\* the limit reached on two days in a row: scans, the stop, the reset, scans
C10_Witness ==
    /\ MAX_USES_PER_DAY >= 1
    /\ today = 1
    /\ page.flow = "stop_limit"
    /\ \E k \in LicenseKeys :
          /\ scans[<<k, 0>>] = MAX_USES_PER_DAY
          /\ scans[<<k, 1>>] = MAX_USES_PER_DAY
====
